---- MODULE Spec2Model ----
(***************************************************************************)
(* Model of script/animation.py (duanebyer/nbody): main() checks the       *)
(* argument count, reads a CSV file of particle positions row by row,      *)
(* turns the rows into a (time step, particle, axis) array and replays it  *)
(* with matplotlib's FuncAnimation until the window is closed.             *)
(*                                                                         *)
(* The script is Python 2 (print statement, line 11): map() returns a list *)
(* and applies float() at once, and / on two ints is floor division.       *)
(*                                                                         *)
(* A CSV field is a sequence of one-character strings.  A number is a      *)
(* record [m, e] standing for m * 10^(-e), kept normalised (no trailing    *)
(* zero in the fraction), so that float() is a real conversion: the texts  *)
(* "1", " 1.0" and "+01." all convert to the same number.                  *)
(***************************************************************************)
EXTENDS Integers, Sequences, FiniteSets, TLC

\* ------------------------------------------------------------------ bounds
\* Largest len(sys.argv) tried (the script name counts as one).
MaxArgv == 3
\* Largest number of rows (blank ones included) a data file holds.
MaxRows == 3
\* Largest number of coordinate fields (fields after the label) of a row.
MaxWidth == 6
\* Largest number of frame-update calls followed before the window closes.
MaxCalls == 5

VARIABLES
    argc,        \* len(sys.argv)
    pc,          \* position in main(): "start", "loop", "plot", "show", "exit"
    stdout,      \* messages printed
    opened,      \* open(sys.argv[1]) has been attempted
    file,        \* the rows csv.reader has yielded so far, in file order
    particles,   \* the variable particles of main()
    fig,         \* the figure and the scatter plot exist
    points,      \* points._offsets3d: <<xs, ys, zs>> currently displayed
    num_frames,  \* the variable num_frames of main()
    frame_seq,   \* FuncAnimation: index of the next frame of the sequence
    started,     \* FuncAnimation: the first draw has happened
    calls,       \* the arguments animate was invoked with, in order
    exc,         \* the exception that ended main(), "none" if none
    line         \* the source line that raised it, 0 if none

vars == <<argc, pc, stdout, opened, file, particles, fig, points,
          num_frames, frame_seq, started, calls, exc, line>>

\* ------------------------------------------------------- float(), line 19
DigitChars == <<"0", "1", "2", "3", "4", "5", "6", "7", "8", "9">>

IsDigit(c) == \E i \in 1..10 : DigitChars[i] = c

DigitVal(c) == (CHOOSE i \in 1..10 : DigitChars[i] = c) - 1

RECURSIVE LStrip(_)
LStrip(s) == IF s # <<>> /\ Head(s) = " " THEN LStrip(Tail(s)) ELSE s

RECURSIVE RStrip(_)
RStrip(s) ==
    IF s # <<>> /\ s[Len(s)] = " " THEN RStrip(SubSeq(s, 1, Len(s) - 1)) ELSE s

\* The integer written by a sequence of digits (0 for the empty sequence).
RECURSIVE DigitsVal(_)
DigitsVal(s) ==
    IF s = <<>> THEN 0
    ELSE 10 * DigitsVal(SubSeq(s, 1, Len(s) - 1)) + DigitVal(s[Len(s)])

\* m * 10^(-e) with the trailing zeros of the fraction removed.
RECURSIVE Normalise(_, _)
Normalise(m, e) ==
    IF e > 0 /\ m % 10 = 0 THEN Normalise(m \div 10, e - 1)
    ELSE [m |-> m, e |-> e]

\* A conversion that never raises: the digits found, 0 when there is none.
FloatLenient(s) ==
    LET t == RStrip(LStrip(s))
        u == IF t # <<>> /\ Head(t) \in {"+", "-"} THEN Tail(t) ELSE t
        d == SelectSeq(u, IsDigit)
    IN  [err |-> FALSE, val |-> Normalise(DigitsVal(d), 0)]

\* float(s) for a decimal literal: optional blanks around, an optional sign,
\* digits with at most one point and at least one digit.  Anything else
\* raises ValueError: the result then has err = TRUE.
Float(s) ==
    LET t == RStrip(LStrip(s))
        signed == t # <<>> /\ Head(t) \in {"+", "-"}
        u == IF signed THEN Tail(t) ELSE t
        dots == {i \in 1..Len(u) : u[i] = "."}
        d == SelectSeq(u, IsDigit)
        ok == /\ d # <<>>
              /\ Cardinality(dots) <= 1
              /\ \A i \in 1..Len(u) : IsDigit(u[i]) \/ u[i] = "."
        frac == IF dots = {} THEN 0 ELSE Len(u) - (CHOOSE i \in dots : TRUE)
        mag == DigitsVal(d)
        m == IF signed /\ Head(t) = "-" THEN 0 - mag ELSE mag
    IN  IF ok THEN [err |-> FALSE, val |-> Normalise(m, frac)]
        ELSE [err |-> TRUE, val |-> [m |-> 0, e |-> 0]]

\* ------------------------------------------------------------ input rows
\* What csv.reader yields for one line: <<>> for a blank line, otherwise the
\* sequence of the line's fields, the label first.
Labels == {<<"p", "1">>, <<"7">>}

\* The text of coordinate j (0-based) of the k-th (0-based) non-blank row:
\* "k.j", written with a leading blank and a plus sign in odd columns, so
\* that every coordinate of a file is a different number and shows where it
\* came from.
MkField(k, j) ==
    LET body == <<DigitChars[k + 1], ".", DigitChars[j + 1]>>
    IN  IF j % 2 = 1 THEN <<" ", "+">> \o body ELSE body

\* A non-numeric field.
BadField == <<"x">>

MkRow(label, w, bad, k) ==
    <<label>> \o [j \in 1..w |-> IF bad /\ j = w THEN BadField
                                 ELSE MkField(k, j - 1)]

\* The rows the k-th non-blank row (or a blank one before it) is drawn from:
\* every width up to MaxWidth, either label, the last field malformed or not.
Rows(k) ==
    {<<>>} \cup {MkRow(l, w, b, k) :
                   l \in Labels, w \in 0..MaxWidth, b \in {FALSE}}
           \cup {MkRow(l, w, b, k) :
                   l \in Labels, w \in 1..MaxWidth, b \in {TRUE}}

\* ------------------------------------------------------ the loop, 16-19
\* row[0:], the slice that keeps the label
WholeRow(row) == row

\* row[1:] (a slice: empty when the row is)
CoordFields(row) == SubSeq(row, 2, Len(row))

Malformed(row) ==
    \E j \in 1..Len(CoordFields(row)) : Float(CoordFields(row)[j]).err

\* map(float, row[1:]), for a row without malformed field
MapFloat(row) ==
    [j \in 1..Len(CoordFields(row)) |-> Float(CoordFields(row)[j]).val]

\* ------------------------------------------------------ numpy, lines 20-22
\* A shape that cuts every row to the shortest one.
ShapeTruncating(list) ==
    IF list = <<>> THEN <<0>>
    ELSE <<Len(list),
           CHOOSE w \in {Len(list[r]) : r \in 1..Len(list)} :
               \A r \in 1..Len(list) : w <= Len(list[r])>>

\* np.shape(np.array(list)): a list of equally long lists is a 2-D array; a
\* ragged list becomes a 1-D array of list objects, and the empty list a 1-D
\* array of length 0.
Shape(list) ==
    IF list = <<>> THEN <<0>>
    ELSE IF \A r \in 1..Len(list) : Len(list[r]) = Len(list[1])
         THEN <<Len(list), Len(list[1])>>
         ELSE <<Len(list)>>

\* The elements of a 2-D array in row-major order.
RECURSIVE Flat(_)
Flat(list) == IF list = <<>> THEN <<>> ELSE Head(list) \o Flat(Tail(list))

\* line 21: np.shape(particles)[1] / 3, a floor division of two ints
NumParticles(width) == width \div 3

\* line 22: np.reshape(a, (-1, n, 3)) is defined when n > 0 and the size of a
\* is a multiple of n * 3; the -1 dimension is then size / (n * 3).
CanReshape(list, n) == n > 0 /\ Len(Flat(list)) % (n * 3) = 0

\* The same shape filled axis by axis, as (-1, 3, n) transposed would be.
ReshapeAxisMajor(list, n) ==
    LET flat == Flat(list)
        T == Len(flat) \div (n * 3)
    IN  [t \in 1..T |-> [p \in 1..n |->
            [a \in 1..3 |-> flat[((t - 1) * 3 + (a - 1)) * n + p]]]]

\* One time step per row, each row cut to its first n triples.
ReshapeTruncating(list, n) ==
    [t \in 1..Len(list) |-> [p \in 1..n |->
        [a \in 1..3 |-> list[t][(p - 1) * 3 + a]]]]

Reshape(list, n) ==
    LET flat == Flat(list)
        T == Len(flat) \div (n * 3)
    IN  [t \in 1..T |-> [p \in 1..n |->
            [a \in 1..3 |-> flat[((t - 1) * n + (p - 1)) * 3 + a]]]]

\* particles[i,:,0], particles[i,:,1], particles[i,:,2] (i 0-based)
Offsets(array, i) ==
    [a \in 1..3 |-> [p \in 1..Len(array[i + 1]) |-> array[i + 1][p][a]]]

\* ------------------------------------------------------------------- Init
Init ==
    /\ argc \in 1..MaxArgv
    /\ pc = "start"
    /\ stdout = <<>>
    /\ opened = FALSE
    /\ file = <<>>
    /\ particles = <<>>
    /\ fig = FALSE
    /\ points = <<>>
    /\ num_frames = 0
    /\ frame_seq = 0
    /\ started = FALSE
    /\ calls = <<>>
    /\ exc = "none"
    /\ line = 0

\* ---------------------------------------------------------------- actions
UsageMessage == "Expecting data file name, none provided."

\* An exception leaves main(): the process ends.
Raise(e, l) == exc' = e /\ line' = l /\ pc' = "exit"

TooFewArgs == argc < 2

\* line 10: len(sys.argv) != 2
WrongArgc == argc # 2

\* lines 10-12: the argument check and the early return
Usage ==
    /\ pc = "start"
    /\ WrongArgc
    /\ stdout' = Append(stdout, UsageMessage)
    /\ pc' = "exit"
    /\ UNCHANGED <<argc, opened, file, particles, fig, points, num_frames,
                   frame_seq, started, calls, exc, line>>

\* lines 13-15: particles = [], open the file (it may not exist)
Open ==
    /\ pc = "start"
    /\ ~WrongArgc
    /\ particles' = <<>>
    /\ opened' = TRUE
    /\ \E exists \in BOOLEAN :
          IF exists THEN pc' = "loop" /\ UNCHANGED <<exc, line>>
          ELSE Raise("IOError", 14)
    /\ UNCHANGED <<argc, stdout, file, fig, points, num_frames, frame_seq,
                   started, calls>>

NeverSkipped(row) == FALSE

\* lines 17-18: if not row: continue
Skipped(row) == row = <<>>

\* lines 16-19: one iteration of the loop over the rows
ReadRow ==
    /\ pc = "loop"
    /\ Len(file) < MaxRows
    /\ \E row \in Rows(Len(particles)) :
          /\ file' = Append(file, row)
          /\ IF Skipped(row)
             THEN UNCHANGED <<particles, pc, exc, line>>
             ELSE IF Malformed(row)
                  THEN Raise("ValueError", 19) /\ UNCHANGED particles
                  ELSE /\ particles' = Append(particles, MapFloat(row))
                       /\ UNCHANGED <<pc, exc, line>>
    /\ UNCHANGED <<argc, stdout, opened, fig, points, num_frames, frame_seq,
                   started, calls>>

\* lines 20-22, at the end of the file: the array, the particle count and
\* the reshape
MakeArray ==
    /\ pc = "loop"
    /\ LET shape == Shape(particles) IN
          IF Len(shape) < 2
          THEN Raise("IndexError", 21) /\ UNCHANGED particles
          ELSE LET num_particles == NumParticles(shape[2]) IN
               IF CanReshape(particles, num_particles)
               THEN /\ particles' = Reshape(particles, num_particles)
                    /\ pc' = "plot"
                    /\ UNCHANGED <<exc, line>>
               ELSE Raise("ValueError", 22) /\ UNCHANGED particles
    /\ UNCHANGED <<argc, stdout, opened, file, fig, points, num_frames,
                   frame_seq, started, calls>>

\* line 42
NumFrames(array) == Len(array) - 1

\* plt.show() that does not block: main() runs to its end at once.
ShowNonBlocking ==
    /\ pc = "plot"
    /\ fig' = TRUE
    /\ points' = Offsets(particles, 0)
    /\ num_frames' = Len(particles) - 1
    /\ frame_seq' = 0
    /\ pc' = "exit"
    /\ UNCHANGED <<argc, stdout, opened, file, particles, started, calls,
                   exc, line>>

\* lines 24-47: the figure, the scatter plot of step 0, the animation object
\* and the entry into plt.show()
Show ==
    /\ pc = "plot"
    /\ fig' = TRUE
    /\ points' = Offsets(particles, 0)
    /\ num_frames' = NumFrames(particles)
    /\ frame_seq' = 0
    /\ pc' = "show"
    /\ UNCHANGED <<argc, stdout, opened, file, particles, started, calls,
                   exc, line>>

\* lines 36-40: animate(i)
animate(i) ==
    /\ points' = Offsets(particles, i)
    /\ calls' = Append(calls, i)

\* FuncAnimation, first draw of the window: with no init_func the first
\* frame of a fresh frame sequence is drawn (nothing when it is empty).
StartAnimation ==
    /\ pc = "show"
    /\ ~started
    /\ started' = TRUE
    /\ IF num_frames > 0 THEN animate(0) ELSE UNCHANGED <<points, calls>>
    /\ UNCHANGED <<argc, pc, stdout, opened, file, particles, fig,
                   num_frames, frame_seq, exc, line>>

\* FuncAnimation, one timer tick (interval=10): the next frame of
\* range(num_frames) is drawn.
Step ==
    /\ pc = "show"
    /\ started
    /\ frame_seq < num_frames
    /\ Len(calls) < MaxCalls
    /\ animate(frame_seq)
    /\ frame_seq' = frame_seq + 1
    /\ UNCHANGED <<argc, pc, stdout, opened, file, particles, fig,
                   num_frames, started, exc, line>>

\* FuncAnimation, the tick after the last frame: repeat defaults to True, so
\* the frame sequence starts again (some versions of the library redraw the
\* first frame at this point, others do not).
Repeat ==
    /\ pc = "show"
    /\ started
    /\ num_frames > 0
    /\ frame_seq = num_frames
    /\ frame_seq' = 0
    /\ \E redraw \in BOOLEAN :
          IF redraw /\ Len(calls) < MaxCalls THEN animate(0)
          ELSE UNCHANGED <<points, calls>>
    /\ UNCHANGED <<argc, pc, stdout, opened, file, particles, fig,
                   num_frames, started, exc, line>>

\* line 47: the user closes the window, plt.show() returns and main() ends
CloseWindow ==
    /\ pc = "show"
    /\ pc' = "exit"
    /\ UNCHANGED <<argc, stdout, opened, file, particles, fig, points,
                   num_frames, frame_seq, started, calls, exc, line>>

Next ==
    \/ Usage
    \/ Open
    \/ ReadRow
    \/ MakeArray
    \/ Show
    \/ StartAnimation
    \/ Step
    \/ Repeat
    \/ CloseWindow

Spec == Init /\ [][Next]_vars

\* ================================================================ claims
\* The number that coordinate j (0-based) of the k-th (0-based) non-blank
\* row stands for: k + j/10.
Coord(k, j) == Normalise(10 * k + j, 1)

\* The non-blank rows read so far, in file order.
NB == SelectSeq(file, LAMBDA r : r # <<>>)

\* The number of coordinate fields of a non-blank row.
Width(row) == Len(row) - 1

HasBadField(row) == \E j \in 2..Len(row) : row[j] = BadField

\* All non-blank rows have the same number of coordinate fields.
Uniform == \A r \in 1..Len(NB) : Width(NB[r]) = Width(NB[1])

Ragged == ~Uniform

\* The whole file has been read and lines 20-22 have been executed.
EndReached == opened /\ pc \notin {"start", "loop"} /\ line \notin {14, 19}

\* The dataset has been built (line 22 has succeeded).
Built == pc \in {"plot", "show"} \/ (pc = "exit" /\ fig)

\* What the loop must have collected from the non-blank rows.
ExpectedList ==
    [t \in 1..Len(NB) |-> [j \in 1..Width(NB[t]) |-> Coord(t - 1, j - 1)]]

\* particles is a (steps, n, 3) array whose element [t][p][a] is the
\* coordinate field 3*p + a of the t-th non-blank row.
RowPerStep(steps, n) ==
    /\ Len(particles) = steps
    /\ \A t \in 1..steps :
          /\ Len(particles[t]) = n
          /\ \A p \in 1..n :
                /\ Len(particles[t][p]) = 3
                /\ \A a \in 1..3 :
                      particles[t][p][a] = Coord(t - 1, 3 * (p - 1) + (a - 1))

\* C1: with len(sys.argv) other than 2 (zero arguments, or two or more) the
\* usage message is printed and main() returns: no file is opened or read,
\* no dataset is built, no plot or animation is created.
C1_UsageNoFileIO ==
    argc # 2 =>
        /\ pc \in {"start", "exit"}
        /\ ~opened /\ file = <<>> /\ particles = <<>>
        /\ ~fig /\ points = <<>> /\ calls = <<>> /\ ~started
        /\ exc = "none"
        /\ (pc = "exit" => stdout = <<UsageMessage>>)

C1_Witness == argc = 3 /\ pc = "exit" /\ stdout = <<UsageMessage>>

\* C2 as claimed: for every file whose non-blank rows all have C numeric
\* coordinate fields, C divisible by 3, the loader produces a dataset of
\* shape (R, C/3, 3) with element [t][p][a] = field 3*p + a of row t.
C2_AsClaimed ==
    (EndReached /\ Uniform /\ (Len(NB) = 0 \/ Width(NB[1]) % 3 = 0)) =>
        /\ exc = "none"
        /\ RowPerStep(Len(NB), IF Len(NB) = 0 THEN 0 ELSE Width(NB[1]) \div 3)

\* C2 amended: the same for files with at least one non-blank row and
\* C >= 3 (with no row, or with rows of a label alone, lines 21-22 raise).
C2_LoaderShape ==
    (EndReached /\ Uniform /\ Len(NB) >= 1
       /\ Width(NB[1]) % 3 = 0 /\ Width(NB[1]) >= 3) =>
        /\ exc = "none"
        /\ Built
        /\ RowPerStep(Len(NB), Width(NB[1]) \div 3)

C2_Witness ==
    /\ pc = "plot" /\ Len(NB) = 2 /\ Width(NB[1]) = 6
    /\ particles[2][2][3] = Coord(1, 5)

\* C3: blank rows are skipped: with blank rows anywhere in the file, the
\* rows collected, and the time steps and coordinates of the dataset built
\* from a valid file, are those of the non-blank rows alone.
C3_BlankRowsSkipped ==
    (\E r \in 1..Len(file) : file[r] = <<>>) =>
        /\ pc = "loop" => particles = ExpectedList
        /\ (Built /\ Width(NB[1]) % 3 = 0) =>
              RowPerStep(Len(NB), Width(NB[1]) \div 3)

C3_Witness ==
    /\ Built /\ Len(file) = 3 /\ Len(particles) = 2
    /\ file[2] = <<>> /\ particles[2][1][3] = Coord(1, 2)

\* C4: the first field of a row is never converted and never part of the
\* data: a row fails at line 19 only for a field after the first, and the
\* rows collected hold the coordinate fields alone, whatever the labels.
C4_LabelExcluded ==
    /\ (exc = "ValueError" /\ line = 19) => HasBadField(file[Len(file)])
    /\ pc = "loop" => particles = ExpectedList

C4_Witness ==
    /\ pc = "loop" /\ Len(NB) = 2
    /\ NB[1][1] = <<"p", "1">> /\ NB[2][1] = <<"7">>
    /\ Width(NB[1]) = 3 /\ Width(NB[2]) = 3

\* C5 as claimed: for T time steps animate is invoked exactly T - 1 times
\* over the run (never more, and T - 1 times when the window has closed),
\* and step 0 is shown by the initial scatter draw only.
C5_AsClaimed ==
    fig =>
        /\ Len(calls) <= Len(particles) - 1
        /\ \A k \in 1..Len(calls) : calls[k] # 0
        /\ pc = "exit" => Len(calls) = Len(particles) - 1

\* C6 as claimed: the indices passed to animate are 1, 2, ..., T - 1 in
\* this order, animate(i) displays step i, and once the frame sequence has
\* been played to its end the last step T - 1 has been displayed.
C6_AsClaimed ==
    fig =>
        /\ \A k \in 1..Len(calls) : calls[k] = k
        /\ calls # <<>> => points = Offsets(particles, calls[Len(calls)])
        /\ (started /\ num_frames > 0 /\ frame_seq = num_frames) =>
              \E k \in 1..Len(calls) : calls[k] = Len(particles) - 1

\* C7 as claimed: every file whose non-blank rows differ in width ends in
\* an error raised at the reshape step (lines 20-22), never in rendering.
C7_AsClaimed ==
    Ragged =>
        /\ pc \notin {"plot", "show"} /\ ~fig
        /\ pc = "exit" => (exc # "none" /\ line \in {20, 21, 22})

\* C7 amended: such a file never reaches rendering; when all the coordinate
\* fields read are numeric the error is the IndexError of line 21 (the array
\* of a ragged list has one dimension), and otherwise the ValueError that
\* float raises at line 19 for the malformed row.
C7_RaggedRaises ==
    Ragged =>
        /\ pc \notin {"plot", "show"} /\ ~fig /\ calls = <<>>
        /\ pc = "exit" =>
              \/ exc = "IndexError" /\ line = 21 /\ particles = ExpectedList
              \/ exc = "ValueError" /\ line = 19
                   /\ HasBadField(file[Len(file)])

C7_Witness ==
    /\ Ragged /\ pc = "exit" /\ line = 21
    /\ Width(NB[1]) = 6 /\ Width(NB[2]) = 3

\* C8 as claimed: with a malformed coordinate field loading does not fail:
\* the rows are all read and the error is raised at the reshape step.
C8_AsClaimed ==
    (\E r \in 1..Len(file) : HasBadField(file[r])) =>
        (pc = "exit" => line \in {20, 21, 22})

\* C8 amended: the row with the malformed field fails inside the loop: float
\* raises ValueError at line 19, no later row is read, the rows before it
\* have been collected, and lines 20-22 are never reached.
C8_MalformedFailsInLoop ==
    \A r \in 1..Len(file) :
        HasBadField(file[r]) =>
            /\ r = Len(file)
            /\ pc = "exit" /\ exc = "ValueError" /\ line = 19
            /\ Len(particles) = Len(NB) - 1 /\ ~fig

C8_Witness ==
    /\ Len(file) = 3 /\ HasBadField(file[3]) /\ Len(particles) = 2
    /\ pc = "exit" /\ line = 19

\* C not a multiple of 3, the same in all R >= 1 non-blank rows.
OddWidth == Uniform /\ Len(NB) >= 1 /\ Width(NB[1]) % 3 # 0

\* C9 as claimed: with OddWidth the program raises, or renders a dataset of
\* R steps whose step t holds the first floor(C/3) triples of row t.
C9_AsClaimed ==
    (OddWidth /\ Built) => RowPerStep(Len(NB), Width(NB[1]) \div 3)

\* C9 amended: with n = floor(C/3), line 22 raises ValueError when n = 0 or
\* R*C is not a multiple of 3*n; otherwise the dataset has R*C/(3*n) steps
\* and is the row-major sequence of all R*C coordinates cut into triples, so
\* a step may hold values of two neighbouring rows.
C9_OddWidthReflows ==
    (OddWidth /\ EndReached) =>
        LET R == Len(NB)
            C == Width(NB[1])
            n == C \div 3
        IN  IF n = 0 \/ (R * C) % (3 * n) # 0
            THEN pc = "exit" /\ exc = "ValueError" /\ line = 22 /\ ~fig
            ELSE /\ Built /\ exc = "none"
                 /\ Len(particles) = (R * C) \div (3 * n)
                 /\ \A t \in 1..Len(particles) :
                       /\ Len(particles[t]) = n
                       /\ \A p \in 1..n : \A a \in 1..3 :
                             LET q == ((t - 1) * n + (p - 1)) * 3 + (a - 1)
                             IN  particles[t][p][a] = Coord(q \div C, q % C)

C9_Witness ==
    /\ OddWidth /\ pc = "show" /\ Len(NB) = 3 /\ Width(NB[1]) = 4
    /\ Len(particles) = 4 /\ particles[2][1] = <<Coord(0, 3), Coord(1, 0), Coord(1, 1)>>

\* The lifecycle state of the specification's state machine.
Lifecycle ==
    CASE pc \in {"start", "loop"} -> "Idle"
      [] pc = "plot" -> "Loaded"
      [] pc = "show" -> "Rendering"
      [] pc = "exit" -> "Terminated"

\* Frame updates happen only in Rendering, and the dataset is not modified
\* once Rendering is reached.
RenderingDiscipline ==
    /\ calls' # calls => (Lifecycle = "Rendering" /\ Lifecycle' = "Rendering")
    /\ Lifecycle = "Rendering" => particles' = particles

\* C10 as claimed: the lifecycle changes only along Idle -> Loaded ->
\* Rendering -> Terminated; Terminated is entered from Rendering only.
C10_AsClaimed ==
    [][/\ Lifecycle' # Lifecycle =>
             <<Lifecycle, Lifecycle'>> \in
                 {<<"Idle", "Loaded">>, <<"Loaded", "Rendering">>,
                  <<"Rendering", "Terminated">>}
       /\ RenderingDiscipline]_vars

\* C10 amended: the lifecycle changes only along Idle -> Loaded ->
\* Rendering -> Terminated, or from Idle straight to Terminated when main()
\* returns after the usage message or an exception of lines 14-22 ends it;
\* from Loaded and Rendering the chain is followed, Rendering ends only
\* with the window closed (no exception, nothing printed).
C10_Lifecycle ==
    [][/\ Lifecycle' # Lifecycle =>
             <<Lifecycle, Lifecycle'>> \in
                 {<<"Idle", "Loaded">>, <<"Loaded", "Rendering">>,
                  <<"Rendering", "Terminated">>, <<"Idle", "Terminated">>}
       /\ (Lifecycle = "Idle" /\ Lifecycle' = "Terminated") =>
             \/ stdout' = <<UsageMessage>> /\ exc' = "none" /\ ~opened'
             \/ exc' # "none" /\ line' \in {14, 19, 21, 22}
       /\ (Lifecycle = "Rendering" /\ Lifecycle' = "Terminated") =>
             exc' = "none" /\ stdout' = <<>>
       /\ RenderingDiscipline]_vars

C10_Witness == pc = "exit" /\ fig /\ Len(calls) >= 3 /\ exc = "none"

====
